---- MODULE Spec2Model ----
(***************************************************************************)
(* Model of scripts/flood_image_analyzer.py: FloodImageAnalyzer, the batch *)
(* flood-depth analyzer.  One analyzer object runs one top-level call,     *)
(* analyze_batch (what main() does) or a direct analyze_image, step by     *)
(* step: one action per model request, per pause and per return.           *)
(*                                                                         *)
(* Text is modelled as sequences: a file name is a sequence of characters, *)
(* a model response is a sequence of JSON tokens.  An optional value       *)
(* (None / a missing attribute / a file that does not exist) is the empty  *)
(* sequence <<>>, a present value v is <<v>>.                              *)
(***************************************************************************)
EXTENDS Integers, Sequences, FiniteSets, TLC

\* ------------------------------------------------------------ bounds
\* Largest number of directory entries of the input directory.
MaxFiles == 2
\* Largest max_retries a direct caller of analyze_image passes (0..MaxRounds).
MaxRounds == 2

\* ------------------------------------------------------- program constants
\* analyze_image(self, image_path, max_retries: int = 3)
DefaultMaxRetries == 3
\* wait_time = (attempt + 1) * 2
BackoffUnit == 2
\* time.sleep(0.5), in milliseconds
PacingDelayMs == 500
\* the six hard-coded few-shot exemplars of self.fewshot_examples
NumExemplars == 6

\* models_to_try = ["gpt-4o", "gpt-4o-mini"]
models_to_try == <<"gpt-4o", "gpt-4o-mini">>

\* SUPPORTED_FORMATS = {'.jpg', '.jpeg', '.png', '.gif', '.webp'}
SUPPORTED_FORMATS ==
    { <<".", "j", "p", "g">>, <<".", "j", "p", "e", "g">>, <<".", "p", "n", "g">>,
      <<".", "g", "i", "f">>, <<".", "w", "e", "b", "p">> }

\* The depth bands the prompt allows (the en dash of the source is written "-").
DepthBands ==
    { "<5", "5-10", "10-15", "15-20", "20-25", "25-30", "30-35", "35-40",
      "40-50", ">50" }

\* "enum": ["pass", "caution", "unsafe", "unknown"] of the response schema
SchemaPassability == { "pass", "caution", "unsafe", "unknown" }

None == <<>>
Some(v) == <<v>>

\* ------------------------------------------------------------ file names
\* Characters in code-point order, as Python compares strings.
CodeOrder ==
    <<"-", ".", "0", "1", "2", "3", "4", "5", "6", "7", "8", "9",
      "G", "J", "P", "a", "e", "g", "j", "n", "o", "p", "r", "s", "t", "x">>

Ord(c) == CHOOSE k \in 1..Len(CodeOrder) : CodeOrder[k] = c

Digits == { "0", "1", "2", "3", "4", "5", "6", "7", "8", "9" }

DigitVal(c) == Ord(c) - Ord("0")

\* str.lower() on the characters of the model's alphabet
LowerChar(c) ==
    CASE c = "G" -> "g"
      [] c = "J" -> "j"
      [] c = "P" -> "p"
      [] OTHER -> c

Lower(s) == [k \in 1..Len(s) |-> LowerChar(s[k])]

\* Position of the dot that starts pathlib's suffix, 0 when the name has none:
\* the last dot, unless it is the first or the last character of the name.
SuffixDot(name) ==
    LET dots == { k \in 2..(Len(name) - 1) : name[k] = "." }
    IN  IF dots = {} THEN 0 ELSE CHOOSE k \in dots : \A j \in dots : j <= k

\* Path.suffix
Suffix(name) ==
    IF SuffixDot(name) = 0 THEN <<>> ELSE SubSeq(name, SuffixDot(name), Len(name))

\* Path.stem
Stem(name) ==
    IF SuffixDot(name) = 0 THEN name ELSE SubSeq(name, 1, SuffixDot(name) - 1)

\* int(s) accepts an optional sign followed by decimal digits.
IsIntText(s) ==
    LET body == IF Len(s) > 0 /\ s[1] = "-" THEN Tail(s) ELSE s
    IN  Len(body) > 0 /\ \A k \in 1..Len(body) : body[k] \in Digits

RECURSIVE DigitsValue(_)
DigitsValue(s) ==
    IF Len(s) = 0 THEN 0
    ELSE 10 * DigitsValue(SubSeq(s, 1, Len(s) - 1)) + DigitVal(s[Len(s)])

IntOf(s) == IF s[1] = "-" THEN 0 - DigitsValue(Tail(s)) ELSE DigitsValue(s)

\* Lexicographic comparison of two strings by code point (Python's str <).
RECURSIVE StrLess(_, _)
StrLess(a, b) ==
    IF Len(b) = 0 THEN FALSE
    ELSE IF Len(a) = 0 THEN TRUE
    ELSE IF a[1] = b[1] THEN StrLess(Tail(a), Tail(b))
    ELSE Ord(a[1]) < Ord(b[1])

\* sort_key that orders every file by its name.
sort_key_ByName(name) == [tag |-> 1, num |-> 0, text |-> name]

\* sort_key of get_image_files: (0, int(stem)) or, on ValueError, (1, name)
sort_key(name) ==
    IF IsIntText(Stem(name))
    THEN [tag |-> 0, num |-> IntOf(Stem(name)), text |-> <<>>]
    ELSE [tag |-> 1, num |-> 0, text |-> name]

\* Python's tuple comparison a < b of two sort keys
KeyLess(a, b) ==
    \/ a.tag < b.tag
    \/ /\ a.tag = b.tag
       /\ IF a.tag = 0 THEN a.num < b.num ELSE StrLess(a.text, b.text)

\* sorted() is stable: x goes after every element whose key is not greater.
RECURSIVE InsertByKey(_, _)
InsertByKey(x, s) ==
    IF Len(s) = 0 THEN <<x>>
    ELSE IF KeyLess(sort_key(x), sort_key(s[1])) THEN <<x>> \o s
    ELSE <<s[1]>> \o InsertByKey(x, Tail(s))

RECURSIVE SortedByKey(_)
SortedByKey(s) ==
    IF Len(s) = 0 THEN <<>>
    ELSE InsertByKey(s[Len(s)], SortedByKey(SubSeq(s, 1, Len(s) - 1)))

\* file_path.is_file() and file_path.suffix.lower() in SUPPORTED_FORMATS
IsImageFile(name) == Lower(Suffix(name)) \in SUPPORTED_FORMATS

\* get_image_files without the extension filter.
get_image_files_Unfiltered(entries) == SortedByKey(entries)

\* get_image_files(directory): the entries in enumeration order, filtered by
\* extension, then sorted by sort_key.
get_image_files(entries) == SortedByKey(SelectSeq(entries, IsImageFile))

\* ------------------------------------------------------- model responses
\* A response text is a sequence of tokens.  "{" and "}" are the braces of an
\* object; a member token is one complete "key": value pair of it (the commas
\* between members are implied); "Jbrace" is a justification member whose
\* string value contains the character }; "Jcut" is a justification member
\* cut off inside its string; "V" is a complete JSON value that is not an
\* object (a number, a list); "prose" is text that is not JSON.
MemberTokens ==
    { "D", "Rband", "Rfree", "Ppass", "Pcaution", "Punsafe", "Punknown",
      "J", "Jbrace", "X" }

Tokens == MemberTokens \cup { "{", "}", "Jcut", "V", "prose" }

MemberKey(t) ==
    CASE t = "D" -> "depth_cm_estimate"
      [] t \in { "Rband", "Rfree" } -> "depth_range"
      [] t \in { "Ppass", "Pcaution", "Punsafe", "Punknown" } -> "passability"
      [] t \in { "J", "Jbrace" } -> "justification"
      [] OTHER -> "confidence"

MemberValue(t) ==
    CASE t = "D" -> Some(12)
      [] t = "Rband" -> "10-15"
      [] t = "Rfree" -> "ankle deep"
      [] t = "Ppass" -> "pass"
      [] t = "Pcaution" -> "caution"
      [] t = "Punsafe" -> "unsafe"
      [] t = "Punknown" -> "unknown"
      [] t = "J" -> "wheel stop covered"
      [] t = "Jbrace" -> "wheel stop covered :-}"
      [] OTHER -> "high"

\* The dict json.loads builds from the members of an object: a repeated key
\* keeps its last value.
DictOf(members) ==
    [ key \in { MemberKey(members[k]) : k \in 1..Len(members) } |->
        LET last == CHOOSE k \in 1..Len(members) :
                        /\ MemberKey(members[k]) = key
                        /\ \A j \in (k + 1)..Len(members) : MemberKey(members[j]) # key
        IN  MemberValue(members[last]) ]

IsObjectText(text) ==
    /\ Len(text) >= 2
    /\ text[1] = "{"
    /\ text[Len(text)] = "}"
    /\ \A k \in 2..(Len(text) - 1) : text[k] \in MemberTokens

\* json.loads(text): .ok is FALSE when it raises JSONDecodeError; .isdict tells
\* a decoded object from any other decoded value.
JsonLoads(text) ==
    IF IsObjectText(text)
    THEN [ok |-> TRUE, isdict |-> TRUE, data |-> DictOf(SubSeq(text, 2, Len(text) - 1))]
    ELSE IF text = <<"V">>
    THEN [ok |-> TRUE, isdict |-> FALSE, data |-> <<>>]
    ELSE [ok |-> FALSE, isdict |-> FALSE, data |-> <<>>]

\* The token holds a } character / the text "depth_cm_estimate".
HasClose(t) == t \in { "}", "Jbrace" }
HasKey(t) == t = "D"

\* First position after from whose token holds a }, 0 when there is none.
FirstClose(text, from) ==
    LET closes == { k \in (from + 1)..Len(text) : HasClose(text[k]) }
    IN  IF closes = {} THEN 0 ELSE CHOOSE k \in closes : \A j \in closes : k <= j

\* The pattern applied with re.match: it matches only at the start of the text.
RegexSearch_MatchAtStart(text) ==
    IF /\ Len(text) > 0
       /\ text[1] = "{"
       /\ FirstClose(text, 1) # 0
       /\ \E d \in 2..(FirstClose(text, 1) - 1) : HasKey(text[d])
    THEN IF text[FirstClose(text, 1)] = "}"
         THEN Some(SubSeq(text, 1, FirstClose(text, 1)))
         ELSE Some(SubSeq(text, 1, FirstClose(text, 1) - 1) \o <<"Jcut">>)
    ELSE None

\* re.search(r'\{[^}]*"depth_cm_estimate"[^}]*\}', content, re.DOTALL): the
\* leftmost { that is followed by the key before the first following }; the
\* match runs up to that }.  None when nothing matches, else the matched text.
RegexSearch(text) ==
    LET starts == { k \in 1..Len(text) :
                      /\ text[k] = "{"
                      /\ FirstClose(text, k) # 0
                      /\ \E d \in (k + 1)..(FirstClose(text, k) - 1) : HasKey(text[d]) }
    IN  IF starts = {} THEN None
        ELSE LET from == CHOOSE k \in starts : \A j \in starts : k <= j
                 to == FirstClose(text, from)
             IN  IF text[to] = "}"
                 THEN Some(SubSeq(text, from, to))
                 ELSE Some(SubSeq(text, from, to - 1) \o <<"Jcut">>)

\* parse_json_response(content): json.loads, and on JSONDecodeError the regex
\* recovery; .ok is FALSE when the original error is raised.
parse_json_response(content) ==
    IF JsonLoads(content).ok THEN JsonLoads(content)
    ELSE IF RegexSearch(content) # None /\ JsonLoads(RegexSearch(content)[1]).ok
    THEN JsonLoads(RegexSearch(content)[1])
    ELSE [ok |-> FALSE, isdict |-> FALSE, data |-> <<>>]

\* The structured-output request names response_schema with strict: True: a
\* complete response is an object with exactly the four required members, in
\* schema order, depth_range any string and passability one of the enum.
SchemaValid(text) ==
    /\ Len(text) = 6
    /\ text[1] = "{" /\ text[2] = "D"
    /\ text[3] \in { "Rband", "Rfree" }
    /\ text[4] \in { "Ppass", "Pcaution", "Punsafe", "Punknown" }
    /\ text[5] \in { "J", "Jbrace" }
    /\ text[6] = "}"

\* What chat.completions.create can do on one request: raise (network, quota,
\* schema rejection), return no content (None or ""), return a complete
\* schema-valid object, or return one cut off at max_completion_tokens.
CompleteContents ==
    { c \in { <<"{", "D", "Rband", "Ppass", "J", "}">>,
              <<"{", "D", "Rband", "Pcaution", "Jbrace", "}">>,
              <<"{", "D", "Rfree", "Punknown", "J", "}">> } : SchemaValid(c) }

CutContents ==
    { <<"{", "D", "Rband">>,
      <<"{", "D", "Rband", "Punsafe", "Jbrace">> }

Responses ==
    { [raised |-> TRUE, content |-> <<>>] }
    \cup { [raised |-> FALSE, content |-> c] :
             c \in { <<>> } \cup CompleteContents \cup CutContents }

\* The body of the inner try of analyze_image for one response: .ok is FALSE
\* when it raises (the request raised, the content is empty, the parser
\* raised, or analysis_data has no .get), else .data is analysis_data.
TryModel(resp) ==
    IF resp.raised \/ Len(resp.content) = 0
    THEN [ok |-> FALSE, data |-> <<>>]
    ELSE IF parse_json_response(resp.content).ok /\ parse_json_response(resp.content).isdict
    THEN [ok |-> TRUE, data |-> parse_json_response(resp.content).data]
    ELSE [ok |-> FALSE, data |-> <<>>]

\* The response is non-empty content that parse_json_response decodes.
Decodes(resp) ==
    /\ ~resp.raised
    /\ Len(resp.content) > 0
    /\ parse_json_response(resp.content).ok

\* ------------------------------------------------------------ records
\* SuccessRecord with an error key, left empty.
SuccessRecord_WithError(image_path, model, analysis_data) ==
    analysis_data @@
    [filename |-> image_path, model_used |-> model, analysis_success |-> TRUE,
     error |-> ""]

\* SuccessRecord that reports the preferred model whatever model answered.
SuccessRecord_FirstModel(image_path, model, analysis_data) ==
    analysis_data @@
    [filename |-> image_path, model_used |-> models_to_try[1],
     analysis_success |-> TRUE]

\* The record of a successful analysis: {filename, ..., model_used,
\* analysis_success: True, **analysis_data}; a key of analysis_data replaces
\* the key of the same name.  (filepath and timestamp are left out.)
SuccessRecord(image_path, model, analysis_data) ==
    analysis_data @@
    [filename |-> image_path, model_used |-> model, analysis_success |-> TRUE]

\* str(e) of the two exceptions that reach the outer except
EncodeError == "image encoding failed"
ExhaustedError == "all models and retries failed"

\* The justification of a failure record: the failure prefix and str(e).
FailureText(message) ==
    IF message = EncodeError THEN "analysis failed: image encoding failed"
    ELSE "analysis failed: all models and retries failed"

\* FailureRecord that leaves a zero depth and no band in place of the nulls.
FailureRecord_ZeroDepth(image_path, message) ==
    [filename |-> image_path, model_used |-> "none", analysis_success |-> FALSE,
     error |-> message, depth_cm_estimate |-> Some(0), depth_range |-> "<5",
     passability |-> "unknown", justification |-> FailureText(message)]

\* The record the outer except builds from the exception text.
FailureRecord(image_path, message) ==
    [filename |-> image_path, model_used |-> "none", analysis_success |-> FALSE,
     error |-> message, depth_cm_estimate |-> None, depth_range |-> "unknown",
     passability |-> "unknown", justification |-> FailureText(message)]

\* ------------------------------------------------------------ exemplars
\* self.fewshot_examples: image name, depth, range, passability (the
\* justification texts are left out).
fewshot_examples ==
    << [image |-> <<"9", ".", "j", "p", "g">>, depth |-> 5, range |-> "5-10",
        passability |-> "pass"],
       [image |-> <<"2", "9", ".", "j", "p", "g">>, depth |-> 13, range |-> "10-15",
        passability |-> "pass"],
       [image |-> <<"3", "2", ".", "j", "p", "g">>, depth |-> 22, range |-> "20-25",
        passability |-> "caution"],
       [image |-> <<"3", "7", ".", "j", "p", "g">>, depth |-> 28, range |-> "25-30",
        passability |-> "caution"],
       [image |-> <<"4", "3", ".", "j", "p", "g">>, depth |-> 42, range |-> "40-50",
        passability |-> "unsafe"],
       [image |-> <<"4", "5", ".", "j", "p", "g">>, depth |-> 45, range |-> "40-50",
        passability |-> "unsafe"] >>

\* LoadFrom with break in place of continue: the first missing image ends
\* the loading.
RECURSIVE LoadFrom_StopAtMissing(_, _)
LoadFrom_StopAtMissing(k, readable) ==
    IF k > Len(fewshot_examples) \/ k \notin readable THEN <<>>
    ELSE << [image_data |-> fewshot_examples[k].image,
             expected_output |->
                 [depth_cm_estimate |-> Some(fewshot_examples[k].depth),
                  depth_range |-> fewshot_examples[k].range,
                  passability |-> fewshot_examples[k].passability]] >>
         \o LoadFrom_StopAtMissing(k + 1, readable)

\* load_fewshot_examples(): the exemplars whose image exists and encodes, in
\* the order of fewshot_examples; readable is the set of their indices.
RECURSIVE LoadFrom(_, _)
LoadFrom(k, readable) ==
    IF k > Len(fewshot_examples) THEN <<>>
    ELSE IF k \in readable
    THEN << [image_data |-> fewshot_examples[k].image,
             expected_output |->
                 [depth_cm_estimate |-> Some(fewshot_examples[k].depth),
                  depth_range |-> fewshot_examples[k].range,
                  passability |-> fewshot_examples[k].passability]] >>
         \o LoadFrom(k + 1, readable)
    ELSE LoadFrom(k + 1, readable)

load_fewshot_examples(readable) == LoadFrom(1, readable)

\* The exemplar directory as load_fewshot_examples can find it: the indices
\* of the exemplars whose image exists and encodes (all, none, some).
ExemplarScenarios == { 1..NumExemplars, {}, {1, 3, 4, 6} }

\* NeedsLoad that also reloads a cache that is an empty list.
NeedsLoad_WhenEmpty(cache) == cache = None \/ Len(cache[1]) = 0

\* if not hasattr(self, '_fewshot_cache')
NeedsLoad(cache) == cache = None

\* The final user message: the task prompt and the target image.
TargetMessage(target) ==
    [role |-> "user", text |-> "flood_prompt", image |-> target, example |-> 0]

RECURSIVE ExampleTurns(_, _)
ExampleTurns(encoded_examples, k) ==
    IF k > Len(encoded_examples) THEN <<>>
    ELSE << [role |-> "user", text |-> "Example", example |-> k,
             image |-> encoded_examples[k].image_data],
            [role |-> "assistant", text |-> "expected_output", example |-> k,
             image |-> <<>>] >>
         \o ExampleTurns(encoded_examples, k + 1)

\* build_fewshot_messages(encoded_examples, target image)
build_fewshot_messages(encoded_examples, target) ==
    << [role |-> "system", text |-> "persona", image |-> <<>>, example |-> 0] >>
    \o ExampleTurns(encoded_examples, 1)
    \o << TargetMessage(target) >>

\* MessagesFor without the test of the cache: few-shot messages always.
MessagesFor_AlwaysFewshot(cache, target) == build_fewshot_messages(cache, target)

\* The messages analyze_image sends: few-shot when the cache is not empty.
MessagesFor(cache, target) ==
    IF Len(cache) > 0 THEN build_fewshot_messages(cache, target)
    ELSE << TargetMessage(target) >>

\* ------------------------------------------------------------ summary
\* Decimal digits of a natural number.
RECURSIVE DigitsOf(_)
DigitsOf(n) ==
    IF n < 10 THEN << CodeOrder[Ord("0") + n] >>
    ELSE DigitsOf(n \div 10) \o << CodeOrder[Ord("0") + (n % 10)] >>

\* f"{(success_count / total * 100):.1f}%": the percentage rounded to the
\* nearest tenth (a tie to the even tenth), as text.
FormatRate(count, total) ==
    LET twice == (2 * 1000 * count) \div total
        exact == (2 * 1000 * count) % total = 0
        floor == twice \div 2
        tenths == IF twice % 2 = 0 THEN floor
                  ELSE IF exact /\ floor % 2 = 0 THEN floor
                  ELSE floor + 1
    IN  DigitsOf(tenths \div 10) \o <<".">> \o DigitsOf(tenths % 10) \o <<"%">>

\* The summary of the early return for a directory without images.
EmptySummary ==
    [total_images |-> 0, successful_analyses |-> 0, failed_analyses |-> 0,
     success_rate |-> <<"0", ".", "0", "%">>]

\* Summary whose failure count forgets to subtract the successes.
Summary_FailedIsTotal(files, count) ==
    [total_images |-> Len(files), successful_analyses |-> count,
     failed_analyses |-> Len(files),
     success_rate |-> FormatRate(count, Len(files))]

\* The summary after the loop (analysis_timestamp is left out).
Summary(files, count) ==
    [total_images |-> Len(files), successful_analyses |-> count,
     failed_analyses |-> Len(files) - count,
     success_rate |-> FormatRate(count, Len(files))]

\* ------------------------------------------------------------ control
\* Advance with break in place of return: a success only ends the round.
Advance_BreakOnSuccess(ok, round, model, retries) ==
    IF ~ok /\ model < Len(models_to_try)
    THEN [pc |-> "request", attempt |-> round, model_ix |-> model + 1]
    ELSE IF round < retries - 1
    THEN [pc |-> "backoff", attempt |-> round, model_ix |-> model]
    ELSE [pc |-> "exhausted", attempt |-> round, model_ix |-> model]

\* Advance with break in place of continue: a failure ends the round.
Advance_BreakOnFailure(ok, round, model, retries) ==
    IF ok THEN [pc |-> "return", attempt |-> round, model_ix |-> model]
    ELSE IF round < retries - 1
    THEN [pc |-> "backoff", attempt |-> round, model_ix |-> model]
    ELSE [pc |-> "exhausted", attempt |-> round, model_ix |-> model]

\* Advance whose round test lets one round more through.
Advance_OneRoundMore(ok, round, model, retries) ==
    IF ok THEN [pc |-> "return", attempt |-> round, model_ix |-> model]
    ELSE IF model < Len(models_to_try)
    THEN [pc |-> "request", attempt |-> round, model_ix |-> model + 1]
    ELSE IF round <= retries - 1
    THEN [pc |-> "backoff", attempt |-> round, model_ix |-> model]
    ELSE [pc |-> "exhausted", attempt |-> round, model_ix |-> model]

\* Where analyze_image goes after the attempt of model number model of round
\* attempt (0-based): return on success; else the next model of the round;
\* after the last model the backoff pause when a round is left, else the end
\* of both loops, which raises the exhaustion error.
Advance(ok, round, model, retries) ==
    IF ok THEN [pc |-> "return", attempt |-> round, model_ix |-> model]
    ELSE IF model < Len(models_to_try)
    THEN [pc |-> "request", attempt |-> round, model_ix |-> model + 1]
    ELSE IF round < retries - 1
    THEN [pc |-> "backoff", attempt |-> round, model_ix |-> model]
    ELSE [pc |-> "exhausted", attempt |-> round, model_ix |-> model]

\* wait_time counted from the 0-based round number.
wait_time_ZeroBased(round) == round * BackoffUnit

\* wait_time = (attempt + 1) * 2
wait_time(round) == (round + 1) * BackoffUnit

\* AppendResult that keeps only the successful records.
AppendResult_SkipFailures(list, record) ==
    IF record.analysis_success THEN Append(list, record) ELSE list

\* CountResult that counts every record.
CountResult_CountsAll(count, record) == count + 1

\* results.append(result) and the success count of the batch loop
AppendResult(list, record) == Append(list, record)
CountResult(count, record) == IF record.analysis_success THEN count + 1 ELSE count

\* ------------------------------------------------------------ credentials
\* A key that the service accepts as text.
ApiKey == <<"s", "k">>

Whitespace == { " ", "\n" }
Quotes == { "'", "\"" }

\* str.strip(chars) on a sequence of characters
RECURSIVE LStrip(_, _)
LStrip(s, chars) ==
    IF Len(s) > 0 /\ s[1] \in chars THEN LStrip(Tail(s), chars) ELSE s

RECURSIVE RStrip(_, _)
RStrip(s, chars) ==
    IF Len(s) > 0 /\ s[Len(s)] \in chars
    THEN RStrip(SubSeq(s, 1, Len(s) - 1), chars)
    ELSE s

Strip(s, chars) == RStrip(LStrip(s, chars), chars)

\* line.startswith('OPENAI_API_KEY='); the name is one token of the line
StartsWithKey(line) ==
    Len(line) >= 2 /\ line[1] = "OPENAI_API_KEY" /\ line[2] = "="

\* line.split('=', 1)[1].strip().strip("'\"")
ValueOf(line) ==
    LET eq == CHOOSE k \in 1..Len(line) :
                  line[k] = "=" /\ \A j \in 1..(k - 1) : line[j] # "="
    IN  Strip(Strip(SubSeq(line, eq + 1, Len(line)), Whitespace), Quotes)

\* The loop over the lines of backend/.env: the first line that starts with
\* the name gives the key and ends the loop; without one api_key stays.
ReadEnvFile(api_key, lines) ==
    LET hits == { k \in 1..Len(lines) : StartsWithKey(lines[k]) }
    IN  IF hits = {} THEN api_key
        ELSE Some(ValueOf(lines[CHOOSE k \in hits : \A j \in hits : k <= j]))

\* Falsy that takes the empty key for a key.
Falsy_NoneOnly(api_key) == api_key = None

\* not api_key: None or the empty string
Falsy(api_key) == IF api_key = None THEN TRUE ELSE Len(api_key[1]) = 0

\* __init__ opens backend/.env: no argument, no key in the environment, and
\* the file exists.
OpensEnvFile(cred) == cred.arg = None /\ Falsy(cred.env) /\ cred.file # None

\* api_key as __init__ has it before the final test (the file is readable).
ResolveKey(cred) ==
    IF cred.arg # None THEN cred.arg
    ELSE IF ~Falsy(cred.env) THEN cred.env
    ELSE IF cred.file = None THEN cred.env
    ELSE ReadEnvFile(cred.env, cred.file[1].lines)

\* The contents backend/.env can have.
EnvFiles ==
    { [readable |-> FALSE, lines |-> << <<"OPENAI_API_KEY", "=", "s", "k", "\n">> >>],
      [readable |-> TRUE, lines |-> <<>>],
      [readable |-> TRUE, lines |-> << <<"#", " ", "k", "\n">> >>],
      [readable |-> TRUE, lines |-> << <<"OPENAI_API_KEY", "=", "s", "k", "\n">> >>],
      [readable |-> TRUE,
       lines |-> << <<"#", "\n">>,
                    <<"OPENAI_API_KEY", "=", " ", "\"", "s", "k", "\"", " ", "\n">> >>],
      [readable |-> TRUE, lines |-> << <<"OPENAI_API_KEY", "=", "'", "'", "\n">> >>],
      [readable |-> TRUE,
       lines |-> << <<"OPENAI_API_KEY", "=", "\n">>,
                    <<"OPENAI_API_KEY", "=", "s", "k", "\n">> >>] }

\* What __init__ can find: the api_key argument, os.getenv('OPENAI_API_KEY')
\* and backend/.env, each absent (None), or present with an empty or a
\* non-empty text.
CredentialScenarios ==
    [ arg : { None, Some(<<>>), Some(ApiKey) },
      env : { None, Some(<<>>), Some(ApiKey) },
      file : { None } \cup { Some(f) : f \in EnvFiles } ]

\* The key is in the environment, as main() expects it.
EnvironmentOnly == [arg |-> None, env |-> Some(ApiKey), file |-> None]

\* ------------------------------------------------------------ state
\* The names a directory entry can have.
DirEntries ==
    { <<"9", ".", "j", "p", "g">>, <<"2", ".", "p", "n", "g">>,
      <<"r", "e", "p", "o", "r", "t", ".", "j", "p", "g">>,
      <<"n", "o", "t", "e", "s", ".", "t", "x", "t">> }

\* The enumerations of a directory: up to MaxFiles distinct entries, any order.
Listings ==
    UNION { { l \in [1..n -> DirEntries] : \A a, b \in 1..n : a # b => l[a] # l[b] } :
            n \in 0..MaxFiles }

VARIABLES
    dirExists,      \* the input directory exists
    listing,        \* its entries, in the order iterdir() yields them
    exemplarFiles,  \* indices of the exemplars whose image exists and encodes
    credentials,    \* where a key can come from: the argument, the environment, backend/.env
    client,         \* self.client: None before construction, else Some(its api_key)
    outputFile,     \* the output file: None, or Some(the report written)
    fewshot_cache,  \* self._fewshot_cache: None while the attribute is unset
    loads,          \* how many times load_fewshot_examples has read the disk
    pc,             \* position of the running call
    caller,         \* who called analyze_image: "batch" or "direct"
    image_files,    \* analyze_batch: the sorted image files
    results,        \* analyze_batch: the records so far
    success_count,  \* analyze_batch: the successes so far
    idx,            \* analyze_batch: 1-based index of the loop
    paced,          \* analyze_batch: milliseconds slept for pacing so far
    image_path,     \* analyze_image: the image
    max_retries,    \* analyze_image: the number of rounds
    attempt,        \* analyze_image: the round, 0-based
    model_ix,       \* analyze_image: index into models_to_try
    messages,       \* analyze_image: the messages of the requests
    log,            \* analyze_image: the requests and pauses of this call, in order
    result,         \* the record analyze_image returned last: None or Some(record)
    ret,            \* what analyze_batch returned: None or Some(report)
    text,           \* a response text handed to parse_json_response alone
    parsed          \* what that call gave: None or Some(its outcome)

vars ==
    << dirExists, listing, exemplarFiles, credentials, client, outputFile,
       fewshot_cache, loads, pc, caller, image_files, results, success_count, idx,
       paced, image_path, max_retries,
       attempt, model_ix, messages, log, result, ret, text, parsed >>

envVars == << dirExists, listing, exemplarFiles, credentials >>
cacheVars == << fewshot_cache, loads >>
unitVars == << text, parsed >>
batchVars == << image_files, results, success_count, idx, paced >>
imageVars == << image_path, max_retries, attempt, model_ix, messages, log >>

\* The analyzer after construction, before any call.
Fresh ==
    /\ credentials = EnvironmentOnly
    /\ client = ResolveKey(credentials)
    /\ outputFile = None
    /\ fewshot_cache = None
    /\ loads = 0
    /\ parsed = None
    /\ pc = "idle"
    /\ caller = "none"
    /\ image_files = <<>>
    /\ results = <<>>
    /\ success_count = 0
    /\ idx = 0
    /\ paced = 0
    /\ image_path = <<>>
    /\ max_retries = 0
    /\ attempt = 0
    /\ model_ix = 0
    /\ messages = <<>>
    /\ log = <<>>
    /\ result = None
    /\ ret = None

Init ==
    /\ dirExists \in BOOLEAN
    /\ listing \in (IF dirExists THEN Listings ELSE { <<>> })
    /\ exemplarFiles \in ExemplarScenarios
    /\ text = <<>>
    /\ Fresh

\* ------------------------------------------------------------ analyze_batch
\* if not images_path.exists(): raise FileNotFoundError
BatchMissingDir ==
    /\ pc = "idle"
    /\ ~dirExists
    /\ pc' = "raised"
    /\ UNCHANGED << envVars, client, unitVars, outputFile, cacheVars, caller, batchVars,
                    imageVars, result, ret >>

\* if not image_files: the early return of the empty report
BatchNoImages ==
    /\ pc = "idle"
    /\ dirExists
    /\ Len(get_image_files(listing)) = 0
    /\ image_files' = get_image_files(listing)
    /\ ret' = Some([summary |-> EmptySummary, results |-> <<>>])
    /\ pc' = "returned"
    /\ UNCHANGED << envVars, client, unitVars, outputFile, cacheVars, caller, results,
                    success_count, idx, paced, imageVars, result >>

\* The batch loop is entered.
BatchBegin ==
    /\ pc = "idle"
    /\ dirExists
    /\ Len(get_image_files(listing)) > 0
    /\ image_files' = get_image_files(listing)
    /\ results' = <<>>
    /\ success_count' = 0
    /\ idx' = 1
    /\ paced' = 0
    /\ caller' = "batch"
    /\ pc' = "loop"
    /\ UNCHANGED << envVars, client, unitVars, outputFile, cacheVars, imageVars, result, ret >>

\* result = self.analyze_image(image_file), with the default max_retries
BatchCall ==
    /\ pc = "loop"
    /\ idx <= Len(image_files)
    /\ image_path' = image_files[idx]
    /\ max_retries' = DefaultMaxRetries
    /\ attempt' = 0
    /\ model_ix' = 0
    /\ messages' = <<>>
    /\ log' = <<>>
    /\ pc' = "analyze"
    /\ UNCHANGED << envVars, client, unitVars, outputFile, cacheVars, caller, batchVars,
                    result, ret >>

\* Pace that goes on to the next image without sleeping.
Pace_NoDelay ==
    /\ pc = "pace"
    /\ paced' = paced
    /\ idx' = idx + 1
    /\ pc' = "loop"
    /\ UNCHANGED << envVars, client, unitVars, outputFile, cacheVars, caller, image_files,
                    results, success_count, imageVars, result, ret >>

\* time.sleep(0.5) after the record of an image
Pace ==
    /\ pc = "pace"
    /\ paced' = paced + PacingDelayMs
    /\ idx' = idx + 1
    /\ pc' = "loop"
    /\ UNCHANGED << envVars, client, unitVars, outputFile, cacheVars, caller, image_files,
                    results, success_count, imageVars, result, ret >>

\* After the loop: the summary, the report written to output_file, the return.
BatchFinish ==
    /\ pc = "loop"
    /\ idx > Len(image_files)
    /\ outputFile' = Some([summary |-> Summary(image_files, success_count),
                           results |-> results])
    /\ ret' = Some([summary |-> Summary(image_files, success_count),
                    results |-> results])
    /\ pc' = "returned"
    /\ UNCHANGED << envVars, client, unitVars, cacheVars, caller, batchVars, imageVars,
                    result >>

\* open(output_file, 'w') raises (the output directory is missing): the call
\* raises after the loop and nothing is written.
BatchWriteFails ==
    /\ pc = "loop"
    /\ idx > Len(image_files)
    /\ pc' = "raised"
    /\ UNCHANGED << envVars, client, unitVars, outputFile, cacheVars, caller, batchVars,
                    imageVars, result, ret >>

\* ------------------------------------------------------------ analyze_image
\* analyze_image returns record: to the batch loop, which appends it and
\* counts it, or to the direct caller.
Return(record) ==
    /\ result' = Some(record)
    /\ IF caller = "batch"
       THEN /\ results' = AppendResult(results, record)
            /\ success_count' = CountResult(success_count, record)
            /\ pc' = "pace"
       ELSE /\ pc' = "returned"
            /\ UNCHANGED << results, success_count >>
    /\ UNCHANGED << envVars, client, unitVars, outputFile, caller, image_files, idx, paced,
                    ret >>

\* A direct call analyze_image(image_path, max_retries) on the new analyzer.
DirectCall ==
    /\ pc = "idle"
    /\ \E name \in { e \in DirEntries : IsImageFile(e) }, retries \in 0..MaxRounds :
         /\ image_path' = name
         /\ max_retries' = retries
    /\ caller' = "direct"
    /\ attempt' = 0
    /\ model_ix' = 0
    /\ messages' = <<>>
    /\ log' = <<>>
    /\ pc' = "analyze"
    /\ UNCHANGED << envVars, client, unitVars, outputFile, cacheVars, batchVars, result, ret >>

\* EncodeFails with the exemplars loaded before the target image is encoded.
EncodeFails_AfterLoad ==
    /\ pc = "analyze"
    /\ fewshot_cache' = IF NeedsLoad(fewshot_cache)
                        THEN Some(load_fewshot_examples(exemplarFiles))
                        ELSE fewshot_cache
    /\ loads' = IF NeedsLoad(fewshot_cache) THEN loads + 1 ELSE loads
    /\ Return(FailureRecord(image_path, EncodeError))
    /\ UNCHANGED imageVars

\* encode_image raises: the outer except returns the failure record.
EncodeFails ==
    /\ pc = "analyze"
    /\ Return(FailureRecord(image_path, EncodeError))
    /\ UNCHANGED << cacheVars, imageVars >>

\* The image is encoded, the exemplars are loaded when the cache attribute is
\* unset, the messages are built, and the loops are entered; with no round
\* at all they end at once and the exhaustion error is raised.
Prepare ==
    /\ pc = "analyze"
    /\ fewshot_cache' = IF NeedsLoad(fewshot_cache)
                        THEN Some(load_fewshot_examples(exemplarFiles))
                        ELSE fewshot_cache
    /\ loads' = IF NeedsLoad(fewshot_cache) THEN loads + 1 ELSE loads
    /\ messages' = MessagesFor(fewshot_cache'[1], image_path)
    /\ attempt' = 0
    /\ model_ix' = 1
    /\ IF max_retries > 0
       THEN /\ pc' = "request"
            /\ UNCHANGED << envVars, client, unitVars, outputFile, caller, batchVars,
                            result, ret >>
       ELSE Return(FailureRecord(image_path, ExhaustedError))
    /\ UNCHANGED << image_path, max_retries, log >>

\* One request to models_to_try[model_ix] and what follows from its response.
Request ==
    /\ pc = "request"
    /\ \E resp \in Responses :
         LET out == TryModel(resp)
             next == Advance(out.ok, attempt, model_ix, max_retries)
         IN  /\ log' = Append(log, [kind |-> "request", round |-> attempt,
                                     model |-> models_to_try[model_ix],
                                     decoded |-> Decodes(resp), secs |-> 0])
             /\ attempt' = next.attempt
             /\ model_ix' = next.model_ix
             /\ CASE next.pc = "return" ->
                       Return(SuccessRecord(image_path, models_to_try[model_ix], out.data))
                  [] next.pc = "exhausted" ->
                       Return(FailureRecord(image_path, ExhaustedError))
                  [] OTHER ->
                       /\ pc' = next.pc
                       /\ UNCHANGED << envVars, client, unitVars, outputFile, caller,
                                       batchVars, result, ret >>
    /\ UNCHANGED << cacheVars, image_path, max_retries, messages >>

\* Backoff that leaves the model position where the failed round ended.
Backoff_KeepsModel ==
    /\ pc = "backoff"
    /\ log' = Append(log, [kind |-> "sleep", round |-> attempt, model |-> "",
                           decoded |-> FALSE, secs |-> wait_time(attempt)])
    /\ attempt' = attempt + 1
    /\ model_ix' = model_ix
    /\ pc' = "request"
    /\ UNCHANGED << envVars, client, unitVars, outputFile, cacheVars, caller, batchVars,
                    image_path, max_retries, messages, result, ret >>

\* time.sleep(wait_time) after a round without success, then the next round
Backoff ==
    /\ pc = "backoff"
    /\ log' = Append(log, [kind |-> "sleep", round |-> attempt, model |-> "",
                           decoded |-> FALSE, secs |-> wait_time(attempt)])
    /\ attempt' = attempt + 1
    /\ model_ix' = 1
    /\ pc' = "request"
    /\ UNCHANGED << envVars, client, unitVars, outputFile, cacheVars, caller, batchVars,
                    image_path, max_retries, messages, result, ret >>

Next ==
    \/ BatchMissingDir
    \/ BatchNoImages
    \/ BatchBegin
    \/ BatchCall
    \/ Pace
    \/ BatchFinish
    \/ BatchWriteFails
    \/ DirectCall
    \/ EncodeFails
    \/ Prepare
    \/ Request
    \/ Backoff

Spec == Init /\ [][Next]_vars

\* ------------------------------------------------------------ get_image_files alone
\* Largest number of entries of a directory handed to get_image_files alone.
MaxListing == 4

\* The names such a directory can hold: the four of the documented example,
\* two more whose stem denotes the integer 2, a name in upper case, and a
\* file that is no image.
FileNames ==
    { <<"9", ".", "j", "p", "g">>, <<"2", "9", ".", "j", "p", "g">>,
      <<"2", ".", "p", "n", "g">>,
      <<"r", "e", "p", "o", "r", "t", ".", "j", "p", "g">>,
      <<"2", ".", "j", "p", "g">>, <<"0", "2", ".", "j", "p", "g">>,
      <<"P", "a", "n", "o", ".", "J", "P", "G">>,
      <<"n", "o", "t", "e", "s", ".", "t", "x", "t">> }

FileListings ==
    UNION { { l \in [1..n -> FileNames] : \A a, b \in 1..n : a # b => l[a] # l[b] } :
            n \in 0..MaxListing }

InitFiles ==
    /\ dirExists = TRUE
    /\ listing \in FileListings
    /\ exemplarFiles = 1..NumExemplars
    /\ text = <<>>
    /\ Fresh

\* image_files = self.get_image_files(images_path)
ListFiles ==
    /\ pc = "idle"
    /\ image_files' = get_image_files(listing)
    /\ pc' = "listed"
    /\ UNCHANGED << envVars, client, unitVars, outputFile, cacheVars, caller, results,
                    success_count, idx, paced, imageVars, result, ret >>

NextFiles == ListFiles

SpecFiles == InitFiles /\ [][NextFiles]_vars

\* ------------------------------------------------------------ parse_json_response alone
\* Largest number of tokens of a text handed to parse_json_response alone.
MaxTextLen == 5

\* The tokens of such a text.
TextTokens == { "{", "}", "D", "J", "Jbrace", "prose", "V" }

Texts == UNION { [1..n -> TextTokens] : n \in 0..MaxTextLen }

InitParse ==
    /\ dirExists = TRUE
    /\ listing = <<>>
    /\ exemplarFiles = 1..NumExemplars
    /\ text \in Texts
    /\ Fresh

\* analysis_data = self.parse_json_response(content)
Parse ==
    /\ pc = "idle"
    /\ parsed' = Some(parse_json_response(text))
    /\ pc' = "parsed"
    /\ UNCHANGED << envVars, client, text, outputFile, cacheVars, caller, batchVars,
                    imageVars, result, ret >>

NextParse == Parse

SpecParse == InitParse /\ [][NextParse]_vars

\* ------------------------------------------------------------ every exemplar directory
\* The analyzer on every set of readable exemplar images, with an input
\* directory of at most one image.
InitAllExemplars ==
    /\ dirExists \in BOOLEAN
    /\ listing \in (IF dirExists THEN { <<>>, << <<"9", ".", "j", "p", "g">> >> }
                    ELSE { <<>> })
    /\ exemplarFiles \in SUBSET (1..NumExemplars)
    /\ text = <<>>
    /\ Fresh

SpecAllExemplars == InitAllExemplars /\ [][Next]_vars

\* ------------------------------------------------------------ __init__
\* Before FloodImageAnalyzer(api_key) is called: any credentials, an input
\* directory of at most one image, every exemplar image in place.
InitStartup ==
    /\ credentials \in CredentialScenarios
    /\ client = None
    /\ dirExists \in BOOLEAN
    /\ listing \in (IF dirExists THEN { <<>>, << <<"9", ".", "j", "p", "g">> >> }
                    ELSE { <<>> })
    /\ exemplarFiles = 1..NumExemplars
    /\ outputFile = None
    /\ fewshot_cache = None
    /\ loads = 0
    /\ text = <<>>
    /\ parsed = None
    /\ pc = "new"
    /\ caller = "none"
    /\ image_files = <<>>
    /\ results = <<>>
    /\ success_count = 0
    /\ idx = 0
    /\ paced = 0
    /\ image_path = <<>>
    /\ max_retries = 0
    /\ attempt = 0
    /\ model_ix = 0
    /\ messages = <<>>
    /\ log = <<>>
    /\ result = None
    /\ ret = None

\* __init__ finds a key and makes the client.
Construct ==
    /\ pc = "new"
    /\ OpensEnvFile(credentials) => credentials.file[1].readable
    /\ ~Falsy(ResolveKey(credentials))
    /\ client' = ResolveKey(credentials)
    /\ pc' = "idle"
    /\ UNCHANGED << envVars, unitVars, outputFile, cacheVars, caller, batchVars,
                    imageVars, result, ret >>

\* __init__ raises: open() of backend/.env fails, or no key was found
\* (ValueError); no analyzer exists.
ConstructFails ==
    /\ pc = "new"
    /\ \/ OpensEnvFile(credentials) /\ ~credentials.file[1].readable
       \/ Falsy(ResolveKey(credentials))
    /\ pc' = "failed"
    /\ UNCHANGED << envVars, client, unitVars, outputFile, cacheVars, caller, batchVars,
                    imageVars, result, ret >>

NextStartup ==
    \/ Construct
    \/ ConstructFails
    \/ Next

SpecStartup == InitStartup /\ [][NextStartup]_vars


\* ------------------------------------------------------------ properties
\* analyze_image has returned and no later call of it has begun: result is
\* its record and log the history of that call.
Returned == result # None /\ pc \notin { "analyze", "request", "backoff" }

\* The requests of the call, in the order they were issued.
Requests == SelectSeq(log, LAMBDA e : e.kind = "request")

\* Every record produced so far: the one returned last and those of the batch.
Records == { result[k] : k \in 1..Len(result) } \cup { results[k] : k \in 1..Len(results) }

IsExhausted(record) == ~record.analysis_success /\ record.error = ExhaustedError

\* C1: a request whose response is non-empty content that the parser decodes
\* is the last event of its analyze_image call, and the call has returned the
\* success record of that image: no request follows it, in this round or later.
C1_SuccessEndsInvocation ==
    \A k \in 1..Len(log) :
        (log[k].kind = "request" /\ log[k].decoded) =>
            /\ k = Len(log)
            /\ Returned
            /\ result[1].analysis_success
            /\ result[1].filename = image_path

\* C1 witness: the preferred model succeeded in the second round, with the
\* other model and a later round still untried.
C1_Witness ==
    /\ Returned
    /\ Len(log) > 0
    /\ log[Len(log)].kind = "request"
    /\ log[Len(log)].decoded
    /\ log[Len(log)].round = 1
    /\ log[Len(log)].model = models_to_try[1]
    /\ max_retries = DefaultMaxRetries

\* C2: when analyze_image has returned the exhaustion failure, its requests
\* are exactly max_retries rounds of every model in candidate order, each of
\* them failed: max_retries * |models| requests.
C2_ExhaustedAfterAllAttempts ==
    (Returned /\ IsExhausted(result[1])) =>
        /\ Len(Requests) = max_retries * Len(models_to_try)
        /\ \A k \in 1..Len(Requests) :
             /\ Requests[k].round = (k - 1) \div Len(models_to_try)
             /\ Requests[k].model = models_to_try[((k - 1) % Len(models_to_try)) + 1]
             /\ ~Requests[k].decoded

\* C2 witness: exhaustion after the three default rounds of both models.
C2_Witness ==
    /\ Returned
    /\ IsExhausted(result[1])
    /\ max_retries = DefaultMaxRetries
    /\ Len(Requests) = 6

\* C3: every record with analysis_success true has its depth_range among the
\* fixed bands and its passability among pass, caution, unsafe.
C3_SuccessValuesInFixedSets ==
    \A r \in Records :
        r.analysis_success =>
            /\ r.depth_range \in DepthBands
            /\ r.passability \in { "pass", "caution", "unsafe" }

\* C4: every record with analysis_success false has a null depth_cm_estimate
\* and "unknown" for depth_range and passability.
C4_FailureValuesUnknown ==
    \A r \in Records :
        ~r.analysis_success =>
            /\ r.depth_cm_estimate = None
            /\ r.depth_range = "unknown"
            /\ r.passability = "unknown"

\* C4 witness: a batch holds the failure record of an encoding failure and
\* the one of an exhaustion.
C4_Witness ==
    /\ Len(results) = 2
    /\ ~results[1].analysis_success /\ results[1].error = EncodeError
    /\ IsExhausted(results[2])

\* C5: a record has an error key exactly when its analysis_success is false,
\* and the error text of a failure record is not empty.
C5_ErrorIffFailure ==
    \A r \in Records :
        /\ ("error" \in DOMAIN r) <=> ~r.analysis_success
        /\ "error" \in DOMAIN r => r.error # ""

\* C5 witness: a batch holds a success record and a failure record.
C5_Witness ==
    /\ Len(results) = 2
    /\ results[1].analysis_success
    /\ ~results[2].analysis_success

\* C6: the record analyze_image returns names, when it succeeded, the model
\* of the last request of the call, whose response was decoded, and "none"
\* when it failed; no record carries another value.
C6_ModelUsed ==
    /\ Returned =>
         IF result[1].analysis_success
         THEN /\ Len(Requests) > 0
              /\ Requests[Len(Requests)].decoded
              /\ result[1].model_used = Requests[Len(Requests)].model
         ELSE result[1].model_used = "none"
    /\ \A r \in Records :
         /\ r.analysis_success =>
              \E k \in 1..Len(models_to_try) : r.model_used = models_to_try[k]
         /\ ~r.analysis_success => r.model_used = "none"

\* C6 witness: the fallback model produced the record.
C6_Witness ==
    /\ Returned
    /\ result[1].analysis_success
    /\ result[1].model_used = models_to_try[2]

\* The reports produced: the one returned and the one written.
Reports == { ret[k] : k \in 1..Len(ret) } \cup { outputFile[k] : k \in 1..Len(outputFile) }

\* C7: in every summary, successful_analyses + failed_analyses = total_images.
C7_CountsAddUp ==
    \A report \in Reports :
        report.summary.successful_analyses + report.summary.failed_analyses
            = report.summary.total_images

\* C7 witness: a returned summary with a success and a failure.
C7_Witness ==
    /\ ret # None
    /\ ret[1].summary.successful_analyses = 1
    /\ ret[1].summary.failed_analyses = 1

\* C8: the batch holds one record per image file of get_image_files, in its
\* order, at every point of the loop and in the report it returns; a failed
\* image does not stop the loop.
C8_OneRecordPerImage ==
    /\ caller = "batch" =>
         /\ image_files = get_image_files(listing)
         /\ Len(results) <= Len(image_files)
         /\ \A k \in 1..Len(results) : results[k].filename = image_files[k]
         /\ pc = "loop" => Len(results) = idx - 1
         /\ pc = "pace" => Len(results) = idx
         /\ pc \in { "analyze", "request", "backoff" } => Len(results) = idx - 1
    /\ (caller = "batch" /\ pc \in { "returned", "raised" }) =>
         Len(results) = Len(image_files)
    /\ \A report \in Reports :
         /\ Len(report.results) = Len(get_image_files(listing))
         /\ \A k \in 1..Len(report.results) :
              report.results[k].filename = get_image_files(listing)[k]

\* C8 witness: the returned report has a failure record first and a success
\* record after it.
C8_Witness ==
    /\ ret # None
    /\ Len(ret[1].results) = 2
    /\ ~ret[1].results[1].analysis_success
    /\ ret[1].results[2].analysis_success

\* C9: whenever analyze_batch has returned, the report it returned is in the
\* output file.
C9_ReportWritten == ret # None => outputFile = ret

\* C10: on an existing directory without a supported image file analyze_batch
\* does not raise; it returns the all-zero summary with rate "0.0%" and no
\* results, and no model request is issued.
C10_EmptyDirectory ==
    (/\ dirExists
     /\ \A k \in 1..Len(listing) : ~IsImageFile(listing[k])
     /\ caller # "direct"
     /\ pc # "idle") =>
        /\ pc = "returned"
        /\ ret # None
        /\ ret[1].summary.total_images = 0
        /\ ret[1].summary.successful_analyses = 0
        /\ ret[1].summary.failed_analyses = 0
        /\ ret[1].summary.success_rate = <<"0", ".", "0", "%">>
        /\ ret[1].results = <<>>
        /\ log = <<>>
        /\ result = None

\* C10 witness: analyze_batch has returned on a directory that holds a file,
\* none of them an image.
C10_Witness ==
    /\ dirExists
    /\ Len(listing) > 0
    /\ \A k \in 1..Len(listing) : ~IsImageFile(listing[k])
    /\ ret # None

\* ------------------------------------------------------------ get_image_files
NumericStem(name) == IsIntText(Stem(name))

ExampleFiles ==
    { <<"9", ".", "j", "p", "g">>, <<"2", "9", ".", "j", "p", "g">>,
      <<"2", ".", "p", "n", "g">>,
      <<"r", "e", "p", "o", "r", "t", ".", "j", "p", "g">> }

ExampleOrder ==
    << <<"2", ".", "p", "n", "g">>, <<"9", ".", "j", "p", "g">>,
       <<"2", "9", ".", "j", "p", "g">>,
       <<"r", "e", "p", "o", "r", "t", ".", "j", "p", "g">> >>

Range(s) == { s[k] : k \in 1..Len(s) }

\* C11: the list get_image_files returns holds exactly the entries of the
\* directory with a supported extension, each once; every file whose stem
\* parses as an integer comes before every other file; the integer stems are
\* in ascending numeric order; the other files are in ascending order of
\* their names (compared character by character); and the directory of
\* 9.jpg, 29.jpg, 2.png, report.jpg is listed as 2.png, 9.jpg, 29.jpg,
\* report.jpg.
C11_NumericThenAlphabetical ==
    pc = "listed" =>
        /\ Range(image_files) = { f \in Range(listing) : IsImageFile(f) }
        /\ \A i, j \in 1..Len(image_files) :
              i < j =>
                /\ image_files[i] # image_files[j]
                /\ NumericStem(image_files[j]) => NumericStem(image_files[i])
                /\ NumericStem(image_files[i]) /\ NumericStem(image_files[j])
                      => IntOf(Stem(image_files[i])) <= IntOf(Stem(image_files[j]))
                /\ ~NumericStem(image_files[i]) /\ ~NumericStem(image_files[j])
                      => StrLess(image_files[i], image_files[j])
        /\ Range(listing) = ExampleFiles => image_files = ExampleOrder

C11_Witness ==
    /\ pc = "listed"
    /\ listing = << ExampleOrder[2], ExampleOrder[3], ExampleOrder[1], ExampleOrder[4] >>
    /\ image_files = ExampleOrder

\* C12: the list get_image_files returns is the same for every order in
\* which the directory enumerates the same set of files.
C12_EnumerationOrderIrrelevant ==
    pc = "listed" =>
        \A p \in Permutations(1..Len(listing)) :
            get_image_files([k \in 1..Len(listing) |-> listing[p[k]]]) = image_files

\* ------------------------------------------------------------ parse_json_response
\* text[i..j] is a JSON object that has the depth_cm_estimate key.
KeyedObjectAt(i, j) ==
    /\ i < j
    /\ IsObjectText(SubSeq(text, i, j))
    /\ \E d \in (i + 1)..(j - 1) : HasKey(text[d])

RecordAt(i, j) == DictOf(SubSeq(text, i + 1, j - 1))

\* The token holds a brace character.
HasBrace(t) == t \in { "{", "}", "Jbrace" }

\* The parser returned the object text[i..j].
ReturnsRecordAt(i, j) ==
    /\ parsed[1].ok
    /\ parsed[1].isdict
    /\ parsed[1].data = RecordAt(i, j)

C14_ExactlyFourFields ==
    pc = "parsed" /\ parsed[1].ok =>
        /\ parsed[1].isdict
        /\ DOMAIN parsed[1].data =
             { "depth_cm_estimate", "depth_range", "passability", "justification" }

\* ------------------------------------------------------------ rounds and pauses
NumModels == Len(models_to_try)

\* The entry is the failed request of the last model of round number round.
LastFailureOf(e, round) ==
    /\ e.kind = "request"
    /\ e.round = round
    /\ e.model = models_to_try[NumModels]
    /\ ~e.decoded

\* C15: with rounds counted from 1 (round r is attempt r - 1) and R =
\* max_retries: every pause in the log is of r * 2 seconds, has r < R, comes
\* right after the failed requests of every model of round r and right
\* before the request of the first model of round r + 1; every round r < R
\* in which every model failed is followed by that pause; and a returned call
\* never ends with a pause, so none follows the last round or a success.
C15_BackoffBetweenFailedRounds ==
    \A k \in 1..Len(log) :
        /\ log[k].kind = "sleep" =>
              /\ log[k].secs = (log[k].round + 1) * 2
              /\ log[k].round + 1 < max_retries
              /\ k > NumModels
              /\ \A m \in 1..NumModels :
                    /\ log[k - NumModels + m - 1].kind = "request"
                    /\ log[k - NumModels + m - 1].round = log[k].round
                    /\ log[k - NumModels + m - 1].model = models_to_try[m]
                    /\ ~log[k - NumModels + m - 1].decoded
              /\ IF k < Len(log)
                 THEN /\ log[k + 1].kind = "request"
                      /\ log[k + 1].round = log[k].round + 1
                      /\ log[k + 1].model = models_to_try[1]
                 ELSE pc = "request" /\ attempt = log[k].round + 1 /\ model_ix = 1
        /\ (LastFailureOf(log[k], log[k].round) /\ log[k].round + 1 < max_retries) =>
              IF k < Len(log)
              THEN log[k + 1].kind = "sleep" /\ log[k + 1].round = log[k].round
              ELSE pc = "backoff" /\ attempt = log[k].round
        /\ (log[k].kind = "request" /\ (log[k].decoded \/ log[k].round + 1 >= max_retries)
              /\ k < Len(log)) => log[k + 1].kind = "request"

\* C15 witness: a call of three rounds that paused 2 seconds after the first
\* round and 4 seconds after the second, and returned after the third.
C15_Witness ==
    /\ Returned
    /\ max_retries = DefaultMaxRetries
    /\ Len(log) = 3 * NumModels + 2
    /\ log[NumModels + 1].kind = "sleep" /\ log[NumModels + 1].secs = 2
    /\ log[2 * NumModels + 2].kind = "sleep" /\ log[2 * NumModels + 2].secs = 4

\* ------------------------------------------------------------ exemplars
\* The k-th smallest index of a set of exemplar indices.
NthOf(S, k) == CHOOSE x \in S : Cardinality({ y \in S : y < x }) = k - 1

AllExemplars == 1..Len(fewshot_examples)

\* C16: whatever exemplar images are missing or unreadable, the loaded list
\* holds exactly the exemplars that resolved, in the fixed exemplar order,
\* and is shorter than the six exemplars when one is missing; the call is
\* never stuck or ended by the load, every image of the batch still gets its
\* record, and the batch can write its report and return.
C16_MissingExemplarsTolerated ==
    /\ fewshot_cache # None =>
          /\ Len(fewshot_cache[1]) = Cardinality(exemplarFiles)
          /\ exemplarFiles # AllExemplars => Len(fewshot_cache[1]) < NumExemplars
          /\ \A k \in 1..Len(fewshot_cache[1]) :
                LET example == fewshot_examples[NthOf(exemplarFiles, k)]
                    loaded == fewshot_cache[1][k]
                IN  /\ loaded.image_data = example.image
                    /\ loaded.expected_output.depth_cm_estimate = Some(example.depth)
                    /\ loaded.expected_output.depth_range = example.range
                    /\ loaded.expected_output.passability = example.passability
    /\ pc \notin { "returned", "raised" } => ENABLED Next
    /\ (caller = "batch" /\ pc = "loop" /\ idx > Len(image_files)) =>
          /\ Len(results) = Len(image_files)
          /\ ENABLED BatchFinish

\* C16 witness: with the second and fifth exemplar image missing, the batch
\* returned its report with the record of its image, analysed with the four
\* exemplars that resolved.
C16_Witness ==
    /\ exemplarFiles = { 1, 3, 4, 6 }
    /\ ret # None
    /\ Len(ret[1].results) = 1
    /\ ret[1].results[1].analysis_success
    /\ Len(fewshot_cache[1]) = 4

\* Position of a model in the candidate list.
ModelIndex(model) == CHOOSE m \in 1..NumModels : models_to_try[m] = model

\* The three ways one attempt fails: the request raises, the content is
\* empty, the content does not parse.
FailedResponses ==
    { resp \in Responses :
        \/ resp.raised
        \/ Len(resp.content) = 0
        \/ ~parse_json_response(resp.content).ok }

\* C17: a failed attempt of a model that is not the last of the candidate
\* list, whether the request raised, returned empty content or returned
\* content that does not parse, is followed in the same round by the request
\* to the next model of the list; a round changes only after a request to the
\* last model, to the next round; and the first request of every round goes
\* to the first model of the list.
C17_FailureContinuesRound ==
    /\ (pc = "request" /\ model_ix < NumModels) =>
          \A resp \in FailedResponses :
              /\ ~TryModel(resp).ok
              /\ Advance(TryModel(resp).ok, attempt, model_ix, max_retries)
                    = [pc |-> "request", attempt |-> attempt, model_ix |-> model_ix + 1]
    /\ \A k \in 1..Len(Requests) :
          /\ (~Requests[k].decoded /\ ModelIndex(Requests[k].model) < NumModels) =>
                IF k < Len(Requests)
                THEN /\ Requests[k + 1].round = Requests[k].round
                     /\ ModelIndex(Requests[k + 1].model) = ModelIndex(Requests[k].model) + 1
                ELSE /\ pc = "request"
                     /\ attempt = Requests[k].round
                     /\ model_ix = ModelIndex(Requests[k].model) + 1
          /\ k = 1 => Requests[k].round = 0 /\ Requests[k].model = models_to_try[1]
          /\ (k > 1 /\ Requests[k].round # Requests[k - 1].round) =>
                /\ Requests[k].round = Requests[k - 1].round + 1
                /\ Requests[k - 1].model = models_to_try[NumModels]
                /\ Requests[k].model = models_to_try[1]

\* C17 witness: the first model failed, the second model was asked in the
\* same round and failed, and the second round began with the first model.
C17_Witness ==
    /\ Len(Requests) = 3
    /\ ~Requests[1].decoded /\ Requests[1].model = models_to_try[1]
    /\ Requests[2].round = 0 /\ Requests[2].model = models_to_try[2]
    /\ Requests[3].round = 1 /\ Requests[3].model = models_to_try[1]

\* ------------------------------------------------------------ exemplar cache
\* C18: over all calls on one analyzer the exemplars are loaded at most
\* once; no request is issued before they are loaded; and once loaded the
\* cached list is never changed and never loaded again, an empty list
\* included.
C18_CacheLoadedOnce ==
    [][ /\ loads' <= 1
        /\ Len(log') > 0 => (fewshot_cache' # None /\ loads' = 1)
        /\ fewshot_cache # None => (fewshot_cache' = fewshot_cache /\ loads' = loads)
        /\ fewshot_cache = None /\ fewshot_cache' # None =>
              /\ loads' = loads + 1
              /\ log' = <<>> ]_vars

\* C18 witness: the second call of a batch is at its first request with the
\* empty list that the first call loaded, and one load was made.
C18_Witness ==
    /\ caller = "batch"
    /\ idx = 2
    /\ pc = "request"
    /\ log = <<>>
    /\ fewshot_cache = Some(<<>>)
    /\ loads = 1

\* ------------------------------------------------------------ termination
\* analyze_image is running.
InCall == pc \in { "analyze", "request", "backoff" }

\* The steps analyze_image has left at most: the requests and pauses of the
\* rounds not yet finished.
Rank ==
    CASE pc = "analyze" -> max_retries * (NumModels + 1) + 2
      [] pc = "request" ->
           (max_retries - attempt - 1) * (NumModels + 1) + (NumModels - model_ix + 1)
      [] pc = "backoff" -> (max_retries - attempt - 1) * (NumModels + 1)
      [] OTHER -> 0

\* C19: while analyze_image runs it can always take a step, and every step
\* it takes lowers the number of steps it has left, which is never negative,
\* so the call ends whatever the responses are; it has issued at most
\* max_retries * |models| requests at any point; and when it has returned,
\* what it returned is a success record or a failure record.
C19_CallTerminates ==
    /\ [](InCall => ENABLED (EncodeFails \/ Prepare \/ Request \/ Backoff))
    /\ [](Rank >= 0 /\ Len(Requests) <= max_retries * NumModels)
    /\ [](Returned =>
            IF result[1].analysis_success
            THEN "error" \notin DOMAIN result[1] /\ "model_used" \in DOMAIN result[1]
            ELSE result[1].error \in { EncodeError, ExhaustedError }
                 /\ result[1].model_used = "none")
    /\ [][InCall => Rank' < Rank]_vars

\* C19 witness: a call with three rounds returned a success record on its
\* sixth request, the last one allowed.
C19_Witness ==
    /\ Returned
    /\ max_retries = DefaultMaxRetries
    /\ Len(Requests) = max_retries * NumModels
    /\ result[1].analysis_success

\* ------------------------------------------------------------ messages
\* C20: with k exemplars in the cache, the messages of a call are, for
\* k >= 1, 2k + 2 messages: a system message, then for each exemplar in
\* cache order a user message with its image and an assistant message with
\* its expected output, then a user message with the task text and the
\* target image; for k = 0 they are that last user message alone.
C20_MessageSequence ==
    pc \in { "request", "backoff" } =>
        LET k == Len(fewshot_cache[1])
            last == messages[Len(messages)]
        IN  /\ Len(messages) = IF k = 0 THEN 1 ELSE 2 * k + 2
            /\ last.role = "user"
            /\ last.text = "flood_prompt"
            /\ last.image = image_path
            /\ k >= 1 =>
                  /\ messages[1].role = "system"
                  /\ messages[1].image = <<>>
                  /\ \A e \in 1..k :
                        /\ messages[2 * e].role = "user"
                        /\ messages[2 * e].example = e
                        /\ messages[2 * e].image = fewshot_cache[1][e].image_data
                        /\ messages[2 * e + 1].role = "assistant"
                        /\ messages[2 * e + 1].example = e
                        /\ messages[2 * e + 1].text = "expected_output"
            /\ \A m \in 1..Len(messages) :
                  messages[m].role = "system" => (m = 1 /\ k >= 1)

\* C20 witness: a request is about to be sent with ten messages built from
\* four exemplars.
C20_Witness ==
    /\ pc = "request"
    /\ Len(fewshot_cache[1]) = 4
    /\ Len(messages) = 10
    /\ messages[8].role = "user"
    /\ messages[8].example = 4

\* ------------------------------------------------------------ startup
\* The source gives a non-empty key.
ArgumentYieldsKey == credentials.arg # None /\ Len(credentials.arg[1]) > 0
EnvironmentYieldsKey == credentials.env # None /\ Len(credentials.env[1]) > 0
FileYieldsKey ==
    /\ credentials.file # None
    /\ credentials.file[1].readable
    /\ \E k \in 1..Len(credentials.file[1].lines) :
          /\ StartsWithKey(credentials.file[1].lines[k])
          /\ Len(ValueOf(credentials.file[1].lines[k])) > 0

\* No image was encoded, no request issued, no output file written.
NoWorkDone ==
    /\ image_path = <<>>
    /\ messages = <<>>
    /\ log = <<>>
    /\ loads = 0
    /\ fewshot_cache = None
    /\ result = None
    /\ outputFile = None

\* analyze_batch was called on a missing input directory.
BatchOnMissingDir ==
    ~dirExists /\ caller # "direct" /\ pc \notin { "new", "idle", "failed" }

\* C21 (as stated): when neither the environment variable nor the
\* configuration file yields a non-empty key, construction fails; and on a
\* missing input directory analyze_batch raises; in both cases no image was
\* encoded, no request issued and no output file written.
C21_FatalStartup ==
    /\ (~EnvironmentYieldsKey /\ ~FileYieldsKey /\ pc # "new") =>
          (pc = "failed" /\ client = None /\ NoWorkDone)
    /\ BatchOnMissingDir => (pc = "raised" /\ NoWorkDone)

\* C21 (amended): when neither the api_key argument, nor the environment
\* variable, nor the configuration file yields a non-empty key, construction
\* fails; and on a missing input directory analyze_batch raises; in both
\* cases no image was encoded, no request issued and no output file written.
C21_FatalStartupWithoutArgument ==
    /\ (~ArgumentYieldsKey /\ ~EnvironmentYieldsKey /\ ~FileYieldsKey /\ pc # "new") =>
          (pc = "failed" /\ client = None /\ NoWorkDone)
    /\ BatchOnMissingDir => (pc = "raised" /\ NoWorkDone)

\* C21 witness: construction failed with no argument, an empty environment
\* variable and a configuration file whose key line holds only quotes.
C21_Witness ==
    /\ pc = "failed"
    /\ credentials.arg = None
    /\ credentials.env = Some(<<>>)
    /\ credentials.file # None
    /\ credentials.file[1].readable
    /\ Len(credentials.file[1].lines) = 1
    /\ StartsWithKey(credentials.file[1].lines[1])
    /\ NoWorkDone

\* ------------------------------------------------------------ pacing
\* C22: in a batch, while image number idx is analysed, idx - 1 records are
\* in and idx - 1 pacing delays of half a second have elapsed, so every
\* request for image i + 1 comes after the delay that follows the record of
\* image i; each delay is taken right after the record of an image, lasts
\* 500 milliseconds, and no request is issued and no record added during it.
C22_PacedBetweenImages ==
    /\ [](caller = "batch" =>
            /\ paced = (idx - 1) * 500
            /\ pc \in { "loop", "analyze", "request", "backoff" } => Len(results) = idx - 1
            /\ pc = "pace" => Len(results) = idx)
    /\ [][paced' # paced =>
            /\ pc = "pace"
            /\ Len(results) = idx
            /\ paced' = paced + 500
            /\ idx' = idx + 1
            /\ log' = log
            /\ results' = results]_vars
    /\ [][(caller = "batch" /\ idx' # idx) => paced' # paced]_vars

\* C22 witness: the first request for the second image of a batch has been
\* issued, after one record and one delay.
C22_Witness ==
    /\ caller = "batch"
    /\ idx = 2
    /\ Len(log) = 1
    /\ log[1].kind = "request"
    /\ Len(results) = 1
    /\ paced = 500

\* ------------------------------------------------------------ summary counts
\* Number of records of a list whose analysis_success is flag.
NumberWith(list, flag) ==
    Cardinality({ k \in 1..Len(list) : list[k].analysis_success = flag })

\* C23: in every report analyze_batch returned or wrote, successful_analyses
\* is the number of results with analysis_success true, failed_analyses the
\* number with analysis_success false, and total_images the length of
\* results.
C23_SummaryMatchesResults ==
    \A report \in Reports :
        /\ report.summary.successful_analyses = NumberWith(report.results, TRUE)
        /\ report.summary.failed_analyses = NumberWith(report.results, FALSE)
        /\ report.summary.total_images = Len(report.results)

\* C23 witness: a returned and written report of two images, the first
\* analysed, the second failed.
C23_Witness ==
    /\ ret # None
    /\ outputFile = ret
    /\ Len(ret[1].results) = 2
    /\ ret[1].results[1].analysis_success
    /\ ~ret[1].results[2].analysis_success
    /\ ret[1].summary.total_images = 2

\* ------------------------------------------------------------ encoding failure
\* The record is the failure record of an image that did not encode.
IsEncodeFailure(record) == ~record.analysis_success /\ record.error = EncodeError

\* C24: the step in which encoding the target image fails returns the
\* failure record of that image with model_used "none" and leaves the
\* exemplar cache and the number of loads as they were; and a call that has
\* returned this record has issued no request and taken no backoff pause.
C24_EncodeFailureTouchesNothing ==
    /\ []((Returned /\ IsEncodeFailure(result[1])) =>
            /\ log = <<>>
            /\ messages = <<>>
            /\ result[1].model_used = "none"
            /\ result[1].filename = image_path)
    /\ [][(pc = "analyze" /\ pc' \notin { "analyze", "request" }
            /\ IsEncodeFailure(result'[1])) =>
             /\ fewshot_cache' = fewshot_cache
             /\ loads' = loads
             /\ log' = <<>>
             /\ outputFile' = outputFile]_vars

\* C24 witness: the first image of a batch did not encode; its failure
\* record is in, no request was made, and the exemplar cache is still unset.
C24_Witness ==
    /\ caller = "batch"
    /\ pc = "pace"
    /\ idx = 1
    /\ IsEncodeFailure(result[1])
    /\ result[1].model_used = "none"
    /\ log = <<>>
    /\ fewshot_cache = None
    /\ loads = 0
====
